---- MODULE Spec2Model ----
(***************************************************************************)
(* Model of the crawl frontier and the fetch / persist / resume pipeline   *)
(* of crawlbase.go (type Crawler).                                          *)
(*                                                                         *)
(* A URL string is a record [ok, scheme, host, path]: ok says whether      *)
(* net/url.Parse accepts the string, host is the sequence of labels that   *)
(* strings.Split(host, ".") yields.  A parsed *url.URL is a record         *)
(* [Scheme, Host, Path].                                                   *)
(*                                                                         *)
(* Spec is the crawler under the calls of its owner; ExtractSpec is the     *)
(* HTML extractor (GetHrefs) and PageFromResponse applied to one input.     *)
(***************************************************************************)
EXTENDS Integers, Sequences, FiniteSets, TLC

---------------------------------------------------------------------------
(* Bounds of the model *)

\* API calls made on the crawler by its owner
MaxCalls == 2
\* the uint64 PageCount is kept modulo 2^CountBits
CountBits == 2
\* the clock (epoch seconds) runs over 0..MaxTime
MaxTime == 1
\* .httpi files cut short by a failed write that may lie in the folder at a time
MaxCut == 1
\* anchors of a document handed to GetHrefs
MaxAnchors == 2

---------------------------------------------------------------------------
(* URL strings of the model *)

Str(scheme, host, path) == [ok |-> TRUE, scheme |-> scheme, host |-> host, path |-> path]

Ux == Str("http", <<"a", "example", "com">>, "/x")
Uy == Str("http", <<"a", "example", "com">>, "/y")
Uz == Str("http", <<"b", "other", "com">>, "/z")
Uw == Str("http", <<"sub", "example", "com">>, "/w")
\* a scheme outside ValidSchemes, a host of one label
Uf == Str("ftp", <<"localhost">>, "/f")
\* the scheme in upper case: Parse lowers it, so String(Parse(UY)) = Uy
UY == Str("HTTP", <<"a", "example", "com">>, "/y")
UF == Str("FTP", <<"localhost">>, "/f")
\* a string url.Parse rejects
Ubad == [ok |-> FALSE, scheme |-> "", host |-> <<"">>, path |-> "%zz"]

\* the empty string: what Header.Get gives for no Location, what ToAbsUrl returns
\* for a reference that does not parse
Unone == Str("", <<"">>, "")
\* a reference with a path only
Uh == Str("", <<"">>, "/h")

\* the nil *url.URL
NilUrl == [Scheme |-> "nil", Host |-> <<>>, Path |-> ""]

---------------------------------------------------------------------------
(* net/url as crawlbase.go uses it *)

ToLower(s) == IF s = "HTTP" THEN "http" ELSE IF s = "FTP" THEN "ftp" ELSE s

\* url.Parse: err for a rejected string, else the URL with its scheme in lower case
Parse(s) ==
    IF s.ok THEN [err |-> FALSE, url |-> [Scheme |-> ToLower(s.scheme), Host |-> s.host, Path |-> s.path]]
    ELSE [err |-> TRUE, url |-> NilUrl]

\* (*url.URL).String
String(u) == Str(u.Scheme, u.Host, u.Path)

ContainsString(arr, key) == \E i \in 1..Len(arr) : arr[i] = key

ValidSchemes == <<"http", "https">>

IsValidScheme(u) == ContainsString(ValidSchemes, u.Scheme)

\* GetDomain works on strings.Split(host, "."), which is never empty
GetDomain(host) ==
    LET lenSplitted == Len(host) IN
    IF lenSplitted >= 2 THEN <<host[lenSplitted - 1], host[lenSplitted]>>
    ELSE IF lenSplitted >= 1 THEN <<host[1]>>
    ELSE host

\* IsSameDomain comparing the hosts themselves
IsSameHost(baseUrl, testUrl) == baseUrl.Host = testUrl.Host

IsSameDomain(baseUrl, testUrl) == GetDomain(baseUrl.Host) = GetDomain(testUrl.Host)

\* (*url.URL).ResolveReference for references that are absolute, or have a host, or
\* an absolute path, or nothing
ResolveReference(baseurl, relurl) ==
    IF relurl.Scheme # "" THEN relurl
    ELSE IF relurl.Host # <<"">> THEN [relurl EXCEPT !.Scheme = baseurl.Scheme]
    ELSE IF relurl.Path = "" THEN baseurl
    ELSE [baseurl EXCEPT !.Path = relurl.Path]

ToAbsUrl(baseurl, weburl) ==
    LET relurl == Parse(weburl)
    IN  IF relurl.err THEN Unone ELSE String(ResolveReference(baseurl, relurl.url))

---------------------------------------------------------------------------
(* The frontier: Links is a function from the keys present to their flag *)

\* map[string]bool{}
Empty == [k \in {} |-> FALSE]

Put(links, k, v) == [x \in (DOMAIN links) \cup {k} |-> IF x = k THEN v ELSE links[x]]

IsCrawled(links, url) == url \in DOMAIN links /\ links[url] = TRUE

RECURSIVE AddCrawledLinks(_, _)
AddCrawledLinks(links, list) ==
    IF list = <<>> THEN links
    ELSE AddCrawledLinks(Put(links, Head(list), TRUE), Tail(list))

\* AddAllLinks leaving the loop after the first link
AddAllLinksFirst(links, list) ==
    IF list = <<>> THEN links
    ELSE Put(links, Head(list), IsCrawled(links, Head(list)))

\* AddAllLinks with the flag set to false whatever it was
RECURSIVE AddAllLinksReset(_, _)
AddAllLinksReset(links, list) ==
    IF list = <<>> THEN links
    ELSE AddAllLinksReset(Put(links, Head(list), FALSE), Tail(list))

RECURSIVE AddAllLinks(_, _)
AddAllLinks(links, list) ==
    IF list = <<>> THEN links
    ELSE AddAllLinks(Put(links, Head(list), IsCrawled(links, Head(list))), Tail(list))

RECURSIVE AddLinksMatchingDomain(_, _, _)
AddLinksMatchingDomain(links, list, startUrl) ==
    IF list = <<>> THEN links
    ELSE LET newLink == Head(list)
             p == Parse(newLink)
         IN  IF p.err THEN AddLinksMatchingDomain(links, Tail(list), startUrl)
             ELSE IF IsSameDomain(startUrl, p.url)
                  THEN AddLinksMatchingDomain(AddAllLinks(links, <<newLink>>), Tail(list), startUrl)
                  ELSE AddLinksMatchingDomain(links, Tail(list), startUrl)

\* the keys GetNextLink may return: ranging over a Go map has no fixed order
NextLinks(links) == {k \in DOMAIN links : links[k] = FALSE}

\* RemoveLinksNotSameHost keeping the keys that do not parse
RemoveLinksKeepUnparsed(links, baseUrl) ==
    LET keep == {k \in DOMAIN links : Parse(k).err \/ IsSameDomain(baseUrl, Parse(k).url)}
    IN  [k \in keep |-> links[k]]

\* delete(cw.Links, k) for every key that does not parse or is of another domain
RemoveLinksNotSameHost(links, baseUrl) ==
    LET keep == {k \in DOMAIN links : ~(Parse(k).err \/ ~IsSameDomain(baseUrl, Parse(k).url))}
    IN  [k \in keep |-> links[k]]

---------------------------------------------------------------------------
(* The HTML extractor.  A style attribute is a sequence of tokens: words, ";", ":"  *)
(* and " ".  An anchor is a record [hasHref, href, hasStyle, style], a document the *)
(* sequence of its anchors.                                                         *)

\* strings.Split: never empty
RECURSIVE Split(_, _)
Split(s, sep) ==
    IF \A i \in 1..Len(s) : s[i] # sep THEN <<s>>
    ELSE LET i == CHOOSE j \in 1..Len(s) : s[j] = sep /\ \A k \in 1..(j - 1) : s[k] # sep
         IN  <<SubSeq(s, 1, i - 1)>> \o Split(SubSeq(s, i + 1, Len(s)), sep)

RECURSIVE TrimSpace(_)
TrimSpace(s) ==
    IF s = <<>> THEN s
    ELSE IF Head(s) = " " THEN TrimSpace(Tail(s))
    ELSE IF s[Len(s)] = " " THEN TrimSpace(SubSeq(s, 1, Len(s) - 1))
    ELSE s

\* the loop of GetStylesCss over the declarations: a later one overwrites
RECURSIVE StylesOf(_, _)
StylesOf(splitted, attrs) ==
    IF splitted = <<>> THEN attrs
    ELSE LET kv == Split(Head(splitted), ":")
         IN  IF Len(kv) > 1
             THEN StylesOf(Tail(splitted), Put(attrs, TrimSpace(kv[1]), TrimSpace(kv[2])))
             ELSE StylesOf(Tail(splitted), attrs)

GetStylesCss(style) == StylesOf(Split(style, ";"), Empty)

IsVisibleCss(style) ==
    LET styles == GetStylesCss(style)
        hasDisplay == <<"display">> \in DOMAIN styles
        hasVisibilty == <<"visibility">> \in DOMAIN styles
    IN  IF hasDisplay /\ styles[<<"display">>] = <<"none">> THEN FALSE
        ELSE IF hasVisibilty /\ styles[<<"visibility">>] = <<"hidden">> THEN FALSE
        ELSE TRUE

\* the callback of doc.Find("a").Each over the anchors, hrefs being the list so far
RECURSIVE EachAnchor(_, _, _, _)
EachAnchor(doc, baseUrl, removeInvisibles, hrefs) ==
    IF doc = <<>> THEN hrefs
    ELSE LET s == Head(doc)
             fullUrl == ToAbsUrl(baseUrl, s.href)
         IN  IF ~s.hasHref THEN EachAnchor(Tail(doc), baseUrl, removeInvisibles, hrefs)
             ELSE IF removeInvisibles /\ s.hasStyle /\ IsVisibleCss(s.style)
             THEN EachAnchor(Tail(doc), baseUrl, removeInvisibles, hrefs)
             ELSE IF ~ContainsString(hrefs, fullUrl)
             THEN EachAnchor(Tail(doc), baseUrl, removeInvisibles, Append(hrefs, fullUrl))
             ELSE EachAnchor(Tail(doc), baseUrl, removeInvisibles, hrefs)

GetHrefs(doc, baseUrl, removeInvisibles) == EachAnchor(doc, baseUrl, removeInvisibles, <<>>)

\* <a href=...> with no style attribute
A(href) == [hasHref |-> TRUE, href |-> href, hasStyle |-> FALSE, style |-> <<>>]

\* the document of anchors without style for a list of hrefs
RECURSIVE Plain(_)
Plain(list) == IF list = <<>> THEN <<>> ELSE <<A(Head(list))>> \o Plain(Tail(list))

---------------------------------------------------------------------------
(* The web: what the server answers for a request URL; it never changes *)

\* a response: its status, the anchors of its body, its Location header (Unone for none)
Resp(status, doc, location) == [StatusCode |-> status, doc |-> doc, Location |-> location]

Web(u) ==
    IF u = Ux THEN Resp(200, Plain(<<Uy, Uz, Uw>>), Ux)
    ELSE IF u = Uy THEN Resp(200, Plain(<<Ux>>), Uy)
    ELSE IF u = Uw THEN Resp(302, Plain(<<Uf>>), Uy)
    ELSE Resp(200, <<>>, u)

\* http.Client with CheckRedirect returning ErrorCheckRedirect: a redirect with a
\* Location comes back as the response, its body closed, and a *url.Error
Intercepted(res) == res.StatusCode \in {301, 302, 303, 307, 308}

\* LocationFromPage with 308 taken for a redirect too
LocationFromPage308(status, location, baseUrl) ==
    IF status >= 300 /\ status <= 308
    THEN [isRedirect |-> TRUE, location |-> ToAbsUrl(baseUrl, location)]
    ELSE [isRedirect |-> FALSE, location |-> Unone]

LocationFromPage(status, location, baseUrl) ==
    IF status >= 300 /\ status < 308
    THEN [isRedirect |-> TRUE, location |-> ToAbsUrl(baseUrl, location)]
    ELSE [isRedirect |-> FALSE, location |-> Unone]

BlankPage == [URL |-> Ubad, Hrefs |-> <<>>, Error |-> FALSE, StatusCode |-> 0, CrawlTime |-> 0]

\* PageFromResponse: hasRes is res != nil; the body of an intercepted response is
\* closed, ReadAll fails on it and PageFromData is not called
PageFromResponse(reqUrl, hasRes, res, time, includeHiddenLinks) ==
    LET hrefs == IF hasRes /\ ~Intercepted(res)
                 THEN GetHrefs(res.doc, reqUrl, ~includeHiddenLinks) ELSE <<>>
        loc   == LocationFromPage(res.StatusCode, res.Location, reqUrl)
        withLoc == IF hasRes /\ loc.isRedirect /\ ~ContainsString(hrefs, loc.location)
                   THEN Append(hrefs, loc.location) ELSE hrefs
    IN  [URL |-> String(reqUrl), Hrefs |-> withLoc, Error |-> FALSE,
         StatusCode |-> IF hasRes THEN res.StatusCode ELSE 0, CrawlTime |-> time]

\* the hosts no connection reaches: Client.Do fails for them
Down(reqUrl) == reqUrl.Host = <<"b", "other", "com">>

\* GetPage for a crawlUrl that parses (FetchSites has parsed it before the call)
GetPage(crawlUrl, time, includeHiddenLinks) ==
    LET reqUrl == Parse(crawlUrl).url
        res    == Web(String(reqUrl))
        down   == Down(reqUrl)
        pg     == PageFromResponse(reqUrl, ~down, res, time, includeHiddenLinks)
    IN  IF down THEN [page |-> [pg EXCEPT !.Error = TRUE], err |-> TRUE]
        ELSE [page |-> pg, err |-> FALSE]

---------------------------------------------------------------------------
(* The hooks a caller may configure; "nil" is no hook *)

BeforeFns == {"nil", "lower", "deny", "moved"}
AfterFns == {"nil", "mirror", "extra"}

\* "lower" rewrites a URL to its parsed-and-printed form, "deny" rejects other.com,
\* "moved" rewrites the URL of the page /x to where the page has moved, Uz
BeforeCrawl(fn, url) ==
    IF fn = "lower"
    THEN [url |-> IF Parse(url).err THEN url ELSE String(Parse(url).url), err |-> FALSE]
    ELSE IF fn = "moved"
    THEN [url |-> IF url = Ux THEN Uz ELSE url, err |-> FALSE]
    ELSE IF fn = "deny"
    THEN [url |-> url, err |-> ~Parse(url).err /\ GetDomain(Parse(url).url.Host) = <<"other", "com">>]
    ELSE [url |-> url, err |-> FALSE]

\* "mirror" answers a failed fetch with a mirror link and the error, "extra" adds
\* two links of its own to the page's
AfterCrawl(fn, pg, e) ==
    IF fn = "mirror"
    THEN IF e THEN [links |-> <<Uw>>, err |-> TRUE] ELSE [links |-> pg.Hrefs, err |-> FALSE]
    ELSE IF fn = "extra"
    THEN [links |-> pg.Hrefs \o <<UY, Ubad>>, err |-> e]
    ELSE [links |-> pg.Hrefs, err |-> e]

---------------------------------------------------------------------------
(* State *)

VARIABLES
    \* fields of the Crawler
    Links, PageCount, BeforeCrawlFn, AfterCrawlFn, ScopeToDomain, StorageFolder,
    WaitBetweenRequests, IncludeHiddenLinks,
    \* the running FetchSites call: its position and its locals
    pc, startUrl, crawlStartUrlFirst, urlStr, page, err, userLinks,
    \* the key the running iteration selected (a sequence of none or one)
    picked,
    \* the machine: the clock in epoch seconds, ./storage and the files in it
    now, storageDir, httpi, respbin,
    \* what the last call on the crawler was and what it returned
    ret, calls,
    \* history of the running FetchSites call: the frontier and PageCount it was
    \* called with, the URLs it has passed to GetPage, the first URL it selected (a
    \* sequence of none or one) and how often it selected the seed (up to twice)
    Links0, PageCount0, fetched, first, seedPicks,
    \* and the keys it selected and skipped for their scheme
    skipped,
    \* history of each .httpi file: the key flagged and the links expanded when
    \* the page in it was fetched
    live,
    \* history of the AddAllLinks calls made in a row: the frontier before the
    \* first of them, the URLs passed to them
    base, added,
    \* the last call of GetHrefs or PageFromResponse made on its own: its arguments
    \* and what it returned
    input, output

vars == <<Links, PageCount, BeforeCrawlFn, AfterCrawlFn, ScopeToDomain, StorageFolder,
          WaitBetweenRequests, IncludeHiddenLinks, pc, startUrl, crawlStartUrlFirst, urlStr,
          page, err, userLinks, picked, now, storageDir, httpi, respbin, ret, calls, Links0,
          PageCount0, fetched, first, seedPicks, skipped, live, base, added, input, output>>

config == <<BeforeCrawlFn, AfterCrawlFn, ScopeToDomain, StorageFolder, WaitBetweenRequests,
            IncludeHiddenLinks>>
extraction == <<input, output>>
locals == <<startUrl, crawlStartUrlFirst, urlStr, page, err, userLinks, picked>>
disk == <<storageDir, httpi, respbin, live>>
history == <<Links0, PageCount0, fetched, first, seedPicks, skipped>>
streak == <<base, added>>

Range(list) == {list[i] : i \in 1..Len(list)}

NoStreak == base' = Empty /\ added' = {}

Ret(op, e, n) == [op |-> op, err |-> e, n |-> n]

Inc(n) == (n + 1) % (2 ^ CountBits)

\* the lists the owner passes to AddAllLinks and AddCrawledLinks
LinkLists == {<<Uy, Uz, Uy>>, <<Uz, UY>>, <<Ubad, Uf, UF>>}

\* the seeds the owner passes to FetchSites, the scope URLs to RemoveLinksNotSameHost
Seeds == {NilUrl, Parse(Ux).url}
Scopes == {Parse(Ux).url, Parse(Uz).url}

Setting(before, after, scope, folder, wait) ==
    [BeforeCrawlFn |-> before, AfterCrawlFn |-> after, ScopeToDomain |-> scope,
     StorageFolder |-> folder, WaitBetweenRequests |-> wait]

\* the settings an owner gives the crawler: every pair of hooks and either scoping
\* without persistence, persistence with and without the default delay
Settings ==
    {Setting(b, a, sc, "", 0) : b \in BeforeFns, a \in AfterFns, sc \in BOOLEAN}
    \cup {Setting("nil", a, FALSE, "./storage", w) : a \in {"nil", "mirror"}, w \in {0, 1000}}

NoCall == [op |-> "none"]

\* NewCrawler() followed by the owner's settings st and IncludeHiddenLinks
Start(st, hidden) ==
    /\ Links = Empty
    /\ PageCount = 0
    /\ BeforeCrawlFn = st.BeforeCrawlFn
    /\ AfterCrawlFn = st.AfterCrawlFn
    /\ ScopeToDomain = st.ScopeToDomain
    /\ StorageFolder = st.StorageFolder
    /\ WaitBetweenRequests = st.WaitBetweenRequests
    /\ IncludeHiddenLinks = hidden
    /\ pc = "idle"
    /\ startUrl = NilUrl
    /\ crawlStartUrlFirst = FALSE
    /\ urlStr = Ubad
    /\ page = BlankPage
    /\ err = FALSE
    /\ userLinks = <<>>
    /\ picked = <<>>
    /\ now = 0
    /\ storageDir = FALSE
    /\ httpi = Empty
    /\ respbin = {}
    /\ ret = Ret("NewCrawler", FALSE, 0)
    /\ calls = 0
    /\ Links0 = Empty
    /\ PageCount0 = 0
    /\ fetched = {}
    /\ first = <<>>
    /\ seedPicks = 0
    /\ skipped = {}
    /\ live = Empty
    /\ base = Empty
    /\ added = {}
    /\ input = NoCall
    /\ output = <<>>

\* the pages of the web have no anchor with a style: IncludeHiddenLinks is left as
\* NewCrawler leaves it
Init == \E st \in Settings : Start(st, FALSE)

Idle == pc = "idle" /\ calls < MaxCalls

\* urlStr, page, err and userLinks are declared in the loop body: the next iteration
\* starts with new ones
NewIteration ==
    /\ urlStr' = Ubad
    /\ page' = BlankPage
    /\ err' = FALSE
    /\ userLinks' = <<>>
    /\ picked' = <<>>

\* FetchSites returns: its locals are gone, and so is the history of the call
Returned ==
    /\ NewIteration
    /\ startUrl' = NilUrl
    /\ crawlStartUrlFirst' = FALSE
    /\ Links0' = Empty
    /\ PageCount0' = 0
    /\ fetched' = {}
    /\ first' = <<>>
    /\ seedPicks' = 0
    /\ skipped' = {}

---------------------------------------------------------------------------
(* Calls on the frontier *)

CallAddAllLinks(list) ==
    /\ Idle
    /\ Links' = AddAllLinks(Links, list)
    /\ ret' = Ret("AddAllLinks", FALSE, 0)
    /\ calls' = calls + 1
    /\ IF ret.op = "AddAllLinks"
       THEN base' = base /\ added' = added \cup Range(list)
       ELSE base' = Links /\ added' = Range(list)
    /\ UNCHANGED <<PageCount, config, extraction, pc, locals, now, disk, history>>

CallAddCrawledLinks(list) ==
    /\ Idle
    /\ Links' = AddCrawledLinks(Links, list)
    /\ ret' = Ret("AddCrawledLinks", FALSE, 0)
    /\ calls' = calls + 1
    /\ NoStreak
    /\ UNCHANGED <<PageCount, config, extraction, pc, locals, now, disk, history>>

CallRemoveLinksNotSameHost(baseUrl) ==
    /\ Idle
    /\ Links' = RemoveLinksNotSameHost(Links, baseUrl)
    /\ ret' = Ret("RemoveLinksNotSameHost", FALSE, 0)
    /\ calls' = calls + 1
    /\ NoStreak
    /\ UNCHANGED <<PageCount, config, extraction, pc, locals, now, disk, history>>

---------------------------------------------------------------------------
(* FetchSites *)

\* FetchSites taking the seed first whether it was crawled or not
CallFetchSitesSeedAlways(seed) ==
    /\ Idle
    /\ Links' = IF seed # NilUrl THEN AddAllLinks(Links, <<String(seed)>>) ELSE Links
    /\ crawlStartUrlFirst' = (seed # NilUrl)
    /\ startUrl' = seed
    /\ pc' = "select"
    /\ ret' = Ret("FetchSites", FALSE, 0)
    /\ calls' = calls + 1
    /\ Links0' = Links
    /\ PageCount0' = PageCount
    /\ fetched' = {}
    /\ first' = <<>>
    /\ seedPicks' = 0
    /\ skipped' = {}
    /\ NoStreak
    /\ UNCHANGED <<PageCount, config, extraction, urlStr, page, err, userLinks, picked, now,
                   disk>>

\* lines 164-175: the seed enters the frontier, crawlStartUrlFirst is set
CallFetchSites(seed) ==
    /\ Idle
    /\ LET withSeed == IF seed # NilUrl THEN AddAllLinks(Links, <<String(seed)>>) ELSE Links
       IN  /\ Links' = withSeed
           /\ crawlStartUrlFirst' = (seed # NilUrl /\ ~IsCrawled(withSeed, String(seed)))
    /\ startUrl' = seed
    /\ pc' = "select"
    /\ ret' = Ret("FetchSites", FALSE, 0)
    /\ calls' = calls + 1
    /\ Links0' = Links
    /\ PageCount0' = PageCount
    /\ fetched' = {}
    /\ first' = <<>>
    /\ seedPicks' = 0
    /\ skipped' = {}
    /\ NoStreak
    /\ UNCHANGED <<PageCount, config, extraction, urlStr, page, err, userLinks, picked, now,
                   disk>>

\* lines 178-186, found: the seed first, else any key GetNextLink may return
SelectFound ==
    /\ pc = "select"
    /\ IF ~crawlStartUrlFirst \/ startUrl = NilUrl
       THEN /\ \E k \in NextLinks(Links) : urlStr' = k
            /\ UNCHANGED crawlStartUrlFirst
       ELSE /\ urlStr' = String(startUrl)
            /\ crawlStartUrlFirst' = FALSE
    /\ pc' = "before"
    /\ picked' = <<urlStr'>>
    /\ first' = IF first = <<>> THEN <<urlStr'>> ELSE first
    /\ seedPicks' = IF startUrl # NilUrl /\ urlStr' = String(startUrl) /\ seedPicks < 2
                    THEN seedPicks + 1 ELSE seedPicks
    /\ UNCHANGED <<Links, PageCount, config, extraction, startUrl, page, err, userLinks, now,
                   disk, ret, calls, Links0, PageCount0, fetched, skipped, streak>>

\* lines 181, 188-191: GetNextLink finds nothing, FetchSites returns nil
SelectDone ==
    /\ pc = "select"
    /\ ~crawlStartUrlFirst \/ startUrl = NilUrl
    /\ NextLinks(Links) = {}
    /\ pc' = "idle"
    /\ ret' = Ret("FetchSites", FALSE, 0)
    /\ Returned
    /\ UNCHANGED <<Links, PageCount, config, extraction, now, disk, calls, streak>>

\* the hook failing after the selected URL was flagged
BeforeFailMarked ==
    /\ pc = "before"
    /\ BeforeCrawlFn # "nil"
    /\ BeforeCrawl(BeforeCrawlFn, urlStr).err
    /\ Links' = Put(Links, urlStr, TRUE)
    /\ pc' = "idle"
    /\ ret' = Ret("FetchSites", TRUE, 0)
    /\ Returned
    /\ UNCHANGED <<PageCount, config, extraction, now, disk, calls, streak>>

\* lines 193-199, the hook fails: FetchSites returns its error
BeforeFail ==
    /\ pc = "before"
    /\ BeforeCrawlFn # "nil"
    /\ BeforeCrawl(BeforeCrawlFn, urlStr).err
    /\ pc' = "idle"
    /\ ret' = Ret("FetchSites", TRUE, 0)
    /\ Returned
    /\ UNCHANGED <<Links, PageCount, config, extraction, now, disk, calls, streak>>

\* lines 193-199, no hook or the hook's URL
BeforeOk ==
    /\ pc = "before"
    /\ IF BeforeCrawlFn # "nil"
       THEN /\ ~BeforeCrawl(BeforeCrawlFn, urlStr).err
            /\ urlStr' = BeforeCrawl(BeforeCrawlFn, urlStr).url
       ELSE UNCHANGED urlStr
    /\ pc' = "mark"
    /\ UNCHANGED <<Links, PageCount, config, extraction, startUrl, crawlStartUrlFirst, page, err,
                   userLinks, picked, now, disk, ret, calls, history, streak>>

\* the iteration going on to the fetch without flagging the URL
MarkNothing ==
    /\ pc = "mark"
    /\ LET nextUrl == Parse(urlStr)
       IN  IF nextUrl.err THEN pc' = "select" /\ NewIteration /\ UNCHANGED skipped
           ELSE IF ~IsValidScheme(nextUrl.url)
           THEN pc' = "select" /\ NewIteration /\ skipped' = skipped \cup Range(picked)
           ELSE pc' = "fetch" /\ UNCHANGED <<urlStr, page, err, userLinks, picked, skipped>>
    /\ UNCHANGED <<Links, PageCount, config, extraction, startUrl, crawlStartUrlFirst, now,
                   disk, ret, calls, Links0, PageCount0, fetched, first, seedPicks, streak>>

\* lines 201-211: flag the URL, then skip it when it does not parse or its scheme
\* is not valid
Mark ==
    /\ pc = "mark"
    /\ Links' = Put(Links, urlStr, TRUE)
    /\ LET nextUrl == Parse(urlStr)
       IN  IF nextUrl.err THEN pc' = "select" /\ NewIteration /\ UNCHANGED skipped
           ELSE IF ~IsValidScheme(nextUrl.url)
           THEN pc' = "select" /\ NewIteration /\ skipped' = skipped \cup Range(picked)
           ELSE pc' = "fetch" /\ UNCHANGED <<urlStr, page, err, userLinks, picked, skipped>>
    /\ UNCHANGED <<PageCount, config, extraction, startUrl, crawlStartUrlFirst, now, disk, ret,
                   calls, Links0, PageCount0, fetched, first, seedPicks, streak>>

\* FetchSites returning the error of GetPage
FetchReturnsError ==
    /\ pc = "fetch"
    /\ LET got == GetPage(urlStr, now, IncludeHiddenLinks)
           hooked == AfterCrawl(AfterCrawlFn, got.page, got.err)
       IN  IF got.err
           THEN /\ pc' = "idle"
                /\ ret' = Ret("FetchSites", TRUE, 0)
                /\ Returned
                /\ UNCHANGED <<Links, PageCount, config, extraction, now, disk, calls, streak>>
           ELSE /\ page' = got.page
                /\ IF AfterCrawlFn # "nil"
                   THEN userLinks' = hooked.links /\ err' = hooked.err
                   ELSE userLinks' = got.page.Hrefs /\ err' = got.err
                /\ fetched' = fetched \cup {urlStr}
                /\ pc' = "save"
                /\ UNCHANGED <<Links, PageCount, config, extraction, startUrl,
                               crawlStartUrlFirst, urlStr, picked, now, disk, ret, calls, Links0,
                               PageCount0, first, seedPicks, skipped, streak>>

\* lines 213-223: GetPage, then the post-fetch hook; the error is only logged
Fetch ==
    /\ pc = "fetch"
    /\ LET got == GetPage(urlStr, now, IncludeHiddenLinks)
           hooked == AfterCrawl(AfterCrawlFn, got.page, got.err)
       IN  /\ page' = got.page
           /\ IF AfterCrawlFn # "nil"
              THEN userLinks' = hooked.links /\ err' = hooked.err
              ELSE userLinks' = got.page.Hrefs /\ err' = got.err
    /\ fetched' = fetched \cup {urlStr}
    /\ pc' = "save"
    /\ UNCHANGED <<Links, PageCount, config, extraction, startUrl, crawlStartUrlFirst, urlStr,
                   picked, now, disk, ret, calls, Links0, PageCount0, first, seedPicks, skipped,
                   streak>>

---------------------------------------------------------------------------
(* SavePage and the rest of the iteration *)

File(pg) == [valid |-> TRUE, page |-> pg]
CutFile == [valid |-> FALSE, page |-> BlankPage]

\* what the file system may do to one SavePage call: "mkdir" and "respbin" are the
\* failures checkFatal sees, "httpiCut" (the file is cut short) is a failure of the
\* last WriteFile, whose error is dropped
SaveOutcomes == {"ok", "mkdir", "respbin", "httpiCut"}

CutFiles(files) == {f \in DOMAIN files : ~files[f].valid}

\* lines 225-226 and 473-501
Save ==
    /\ pc = "save"
    /\ IF StorageFolder = ""
       THEN /\ PageCount' = Inc(PageCount)
            /\ pc' = "expand"
            /\ UNCHANGED disk
       ELSE \E io \in SaveOutcomes :
            LET fileName == page.CrawlTime IN
            /\ io = "mkdir" => ~storageDir
            /\ io = "httpiCut" => Cardinality(CutFiles(httpi) \ {fileName}) < MaxCut
            /\ storageDir' = (storageDir \/ io # "mkdir")
            /\ respbin' = IF io \in {"mkdir", "respbin"} THEN respbin ELSE respbin \cup {fileName}
            /\ httpi' = IF io = "ok" THEN Put(httpi, fileName, File(page))
                        ELSE IF io = "httpiCut" THEN Put(httpi, fileName, CutFile)
                        ELSE httpi
            /\ live' = IF io \in {"ok", "httpiCut"}
                       THEN Put(live, fileName, [key |-> urlStr, links |-> userLinks])
                       ELSE live
            /\ IF io \in {"mkdir", "respbin"}
               THEN pc' = "exited" /\ UNCHANGED PageCount
               ELSE pc' = "expand" /\ PageCount' = Inc(PageCount)
    /\ IF pc' = "exited" THEN Returned ELSE UNCHANGED <<locals, history>>
    /\ UNCHANGED <<Links, config, extraction, now, ret, calls, streak>>

\* the seconds that pass until the next iteration reads the clock
Ticks == IF WaitBetweenRequests >= 1000 THEN {1} ELSE {0, 1}

\* the expansion taking the page's hyperlinks whatever the hook returned
ExpandHrefs ==
    /\ pc = "expand"
    /\ Links' = IF startUrl # NilUrl /\ ScopeToDomain
                THEN AddLinksMatchingDomain(Links, page.Hrefs, startUrl)
                ELSE AddAllLinks(Links, page.Hrefs)
    /\ \E d \in Ticks : now + d <= MaxTime /\ now' = now + d
    /\ pc' = "select"
    /\ NewIteration
    /\ UNCHANGED <<PageCount, config, extraction, startUrl, crawlStartUrlFirst, disk, ret,
                   calls, history, streak>>

\* lines 228-234
Expand ==
    /\ pc = "expand"
    /\ Links' = IF startUrl # NilUrl /\ ScopeToDomain
                THEN AddLinksMatchingDomain(Links, userLinks, startUrl)
                ELSE AddAllLinks(Links, userLinks)
    /\ \E d \in Ticks : now + d <= MaxTime /\ now' = now + d
    /\ pc' = "select"
    /\ NewIteration
    /\ UNCHANGED <<PageCount, config, extraction, startUrl, crawlStartUrlFirst, disk, ret, calls, history,
                   streak>>

---------------------------------------------------------------------------
(* LoadPages *)

\* the .httpi files of the folder in the order ioutil.ReadDir lists them
RECURSIVE Sorted(_)
Sorted(names) ==
    IF names = {} THEN <<>>
    ELSE LET m == CHOOSE x \in names : \A y \in names : x <= y
         IN  <<m>> \o Sorted(names \ {m})

\* lines 382-385 and 387-390 for a loaded page p; LoadPage's err is nil there
LoadUrl(fn, p) == IF fn # "nil" THEN BeforeCrawl(fn, p.URL).url ELSE p.URL
LoadHrefs(fn, p) == IF fn # "nil" THEN AfterCrawl(fn, p, FALSE).links ELSE p.Hrefs

\* LoadPages passing over a file that does not load and going on with the next
RECURSIVE LoadFilesGoesOn(_, _, _, _, _, _)
LoadFilesGoesOn(links, files, names, readCount, before, after) ==
    IF names = <<>> THEN [links |-> links, n |-> readCount, err |-> FALSE]
    ELSE LET file == files[Head(names)] IN
         IF ~file.valid
         THEN [LoadFilesGoesOn(links, files, Tail(names), readCount, before, after)
                 EXCEPT !.err = TRUE]
         ELSE LET url == LoadUrl(before, file.page)
                  hrefs == LoadHrefs(after, file.page)
              IN  LoadFilesGoesOn(AddAllLinks(AddCrawledLinks(links, <<url>>), hrefs), files,
                                  Tail(names), readCount + 1, before, after)

\* lines 376-396
RECURSIVE LoadFiles(_, _, _, _, _, _)
LoadFiles(links, files, names, readCount, before, after) ==
    IF names = <<>> THEN [links |-> links, n |-> readCount, err |-> FALSE]
    ELSE LET file == files[Head(names)] IN
         IF ~file.valid THEN [links |-> links, n |-> readCount, err |-> TRUE]
         ELSE LET url == LoadUrl(before, file.page)
                  hrefs == LoadHrefs(after, file.page)
              IN  LoadFiles(AddAllLinks(AddCrawledLinks(links, <<url>>), hrefs), files,
                            Tail(names), readCount + 1, before, after)

CallLoadPages(folderpath) ==
    /\ Idle
    /\ calls' = calls + 1
    /\ NoStreak
    /\ IF folderpath = ""
       THEN /\ ret' = Ret("LoadPages", FALSE, 0)
            /\ UNCHANGED <<Links, pc>>
       ELSE IF ~storageDir
       THEN /\ pc' = "exited"
            /\ ret' = Ret("LoadPages", TRUE, 0)
            /\ UNCHANGED Links
       ELSE LET r == LoadFiles(Links, httpi, Sorted(DOMAIN httpi), 0, BeforeCrawlFn, AfterCrawlFn)
            IN  /\ Links' = r.links
                /\ ret' = Ret("LoadPages", r.err, r.n)
                /\ UNCHANGED pc
    /\ UNCHANGED <<PageCount, config, extraction, locals, now, disk, history>>

\* the owner starts over: NewCrawler() with the same settings, the files stay
CallNewCrawler ==
    /\ pc \in {"idle", "exited"}
    /\ Links' = Empty
    /\ PageCount' = 0
    /\ pc' = "idle"
    /\ ret' = Ret("NewCrawler", FALSE, 0)
    /\ NoStreak
    /\ UNCHANGED <<config, extraction, locals, now, disk, calls, history>>

---------------------------------------------------------------------------
Next ==
    \/ \E list \in LinkLists : CallAddAllLinks(list)
    \/ \E list \in LinkLists : CallAddCrawledLinks(list)
    \/ \E baseUrl \in Scopes : CallRemoveLinksNotSameHost(baseUrl)
    \/ \E seed \in Seeds : CallFetchSites(seed)
    \/ SelectFound
    \/ SelectDone
    \/ BeforeFail
    \/ BeforeOk
    \/ Mark
    \/ Fetch
    \/ Save
    \/ Expand
    \/ \E folderpath \in {"", "./storage"} : CallLoadPages(folderpath)
    \/ CallNewCrawler

Spec == Init /\ [][Next]_vars

---------------------------------------------------------------------------
(* GetHrefs and PageFromResponse called on their own, once, on an input of the sets *)
(* below                                                                            *)

\* the crawler and the machine, which these calls leave alone
crawl == <<Links, PageCount, config, pc, locals, now, disk, ret, calls, history, streak>>

\* the base URL of the documents, the request URL of the responses
BaseUrl == Parse(Ux).url

\* style attributes: none hides the anchor but "display:none", "visibility:hidden",
\* " display : none ;" and "color:red; visibility:hidden"
Styles ==
    { <<>>,
      <<"display", ":", "none">>,
      <<"display", ":", "block">>,
      <<"visibility", ":", "hidden">>,
      <<" ", "display", " ", ":", " ", "none", " ", ";">>,
      <<"color", ":", "red", ";", " ", "visibility", ":", "hidden">>,
      <<"display", ";", "color", ":", "red">> }

Anchors ==
    {[hasHref |-> FALSE, href |-> Unone, hasStyle |-> TRUE, style |-> <<"display", ":", "block">>]}
    \cup {A(h) : h \in {Uh, Uy}}
    \cup {[hasHref |-> TRUE, href |-> h, hasStyle |-> TRUE, style |-> st] :
             h \in {Uh, Uy}, st \in Styles}

\* the documents of up to MaxAnchors anchors
Docs == UNION {[1..n -> Anchors] : n \in 0..MaxAnchors}

CallGetHrefs(doc, removeInvisibles) ==
    /\ input = NoCall
    /\ input' = [op |-> "GetHrefs", doc |-> doc, removeInvisibles |-> removeInvisibles]
    /\ output' = GetHrefs(doc, BaseUrl, removeInvisibles)
    /\ UNCHANGED crawl

\* the responses Client.Do hands to PageFromResponse: a redirect it intercepts has a
\* Location that parses
Responses ==
    {r \in {Resp(st, doc, loc) : st \in {200, 299, 300, 302, 304, 307, 308},
                                 doc \in {<<>>, Plain(<<Uy>>), Plain(<<Uh, Uz>>)},
                                 loc \in {Unone, Uh, Uy, UY, Ubad}} :
        Intercepted(r) => r.Location \in {Uh, Uy, UY}}

CallPageFromResponse(res) ==
    /\ input = NoCall
    /\ input' = [op |-> "PageFromResponse", res |-> res]
    /\ output' = PageFromResponse(BaseUrl, TRUE, res, now, IncludeHiddenLinks)
    /\ UNCHANGED crawl

ExtractInit == \E hidden \in BOOLEAN : Start(Setting("nil", "nil", FALSE, "", 0), hidden)

ExtractNext ==
    \/ \E doc \in Docs, removeInvisibles \in BOOLEAN : CallGetHrefs(doc, removeInvisibles)
    \/ \E res \in Responses : CallPageFromResponse(res)

ExtractSpec == ExtractInit /\ [][ExtractNext]_vars

---------------------------------------------------------------------------
\* the steps of a running FetchSites call; the call is sequential code that runs on
\* while the process lives
Loop ==
    \/ SelectFound
    \/ SelectDone
    \/ BeforeFail
    \/ BeforeOk
    \/ Mark
    \/ Fetch
    \/ Save
    \/ Expand

FairSpec == Spec /\ WF_vars(Loop)

---------------------------------------------------------------------------
(* What the claims speak of *)

\* the registrable domain of a host: its last two labels, the whole host if fewer
Registrable(host) == IF Len(host) < 2 THEN host ELSE SubSeq(host, Len(host) - 1, Len(host))

\* a frontier key is of the domain of u: it has a host, and of the same registrable domain
OfDomain(key, u) == key.ok /\ Registrable(key.host) = Registrable(u.Host)

Visited(links) == {k \in DOMAIN links : links[k] = TRUE}

\* a step of one of the calls that work on the crawler at hand and do not prune it
KeepingStep == ret'.op \notin {"RemoveLinksNotSameHost", "NewCrawler"}

\* a step that is a call of AddAllLinks
AddAllLinksStep == pc = "idle" /\ ret'.op = "AddAllLinks" /\ calls' = calls + 1

---------------------------------------------------------------------------
\* C1: termination. With no storage folder (no file system failure) and hooks that
\* do not fail, a FetchSites call that has come to its selection comes to return
\* nil; the URLs of the model are finitely many and the web answers the same each
\* time.
C1_Terminates ==
    (pc = "select" /\ BeforeCrawlFn # "deny" /\ StorageFolder = "")
        ~> (pc = "idle" /\ ret = Ret("FetchSites", FALSE, 0))

---------------------------------------------------------------------------
\* C2: no refetch. No URL is passed to GetPage that was passed to it before in the
\* same FetchSites call or that was flagged when the call began.
C2_NoRefetch ==
    [][(pc = "fetch" /\ pc' = "save") =>
         (urlStr \notin fetched /\ ~IsCrawled(Links0, urlStr))]_vars

---------------------------------------------------------------------------
\* C3: visited monotonicity. In every step of AddAllLinks, AddCrawledLinks,
\* LoadPages and FetchSites a key flagged true stays in the frontier flagged true;
\* a key an AddAllLinks call inserts is flagged false.
C3_VisitedMonotone ==
    [][/\ KeepingStep => \A u \in Visited(Links) : u \in Visited(Links')
       /\ AddAllLinksStep => \A u \in (DOMAIN Links') \ (DOMAIN Links) : Links'[u] = FALSE]_vars

\* AddCrawledLinks([Uy, Uz, Uy]) then AddAllLinks([Uz, UY]): Uy and Uz stay flagged,
\* UY is inserted unflagged
C3_Witness ==
    /\ ret.op = "AddAllLinks"
    /\ calls = 2
    /\ Links = [k \in {Uy, Uz, UY} |-> k # UY]

---------------------------------------------------------------------------
\* C9: no silent removal. No step of FetchSites, LoadPages, AddAllLinks or
\* AddCrawledLinks removes a key; a RemoveLinksNotSameHost call leaves exactly the
\* keys of the scope URL's registrable domain, each with the flag it had.
C9_NoSilentRemoval ==
    [][/\ KeepingStep => (DOMAIN Links) \subseteq (DOMAIN Links')
       /\ \A baseUrl \in Scopes : CallRemoveLinksNotSameHost(baseUrl) =>
            /\ DOMAIN Links' = {k \in DOMAIN Links : OfDomain(k, baseUrl)}
            /\ \A k \in DOMAIN Links' : Links'[k] = Links[k]]_vars

\* FetchSites for seed Ux under domain scoping, then RemoveLinksNotSameHost(Uz):
\* every key was of example.com and is gone
C9_Witness ==
    /\ ret.op = "RemoveLinksNotSameHost"
    /\ calls = 2
    /\ PageCount > 0
    /\ Links = Empty

---------------------------------------------------------------------------
\* domain scoping is in force in the running FetchSites call
Scoped == ScopeToDomain /\ startUrl # NilUrl

\* C4: domain scoping of expansion. The keys in the frontier after the expansion
\* step are those before it and the discovered links; under scoping with a seed,
\* of the discovered links only those of the seed's registrable domain.
C4_DomainScoping ==
    [][(pc = "expand" /\ pc' = "select") =>
         DOMAIN Links' = (DOMAIN Links)
                         \cup {l \in Range(userLinks) : Scoped => OfDomain(l, startUrl)}]_vars

\* scoped FetchSites for seed Ux on an empty frontier, after the first page: of the
\* links Uy, Uz, Uw on it, Uy and Uw are in the frontier and Uz is not
C4_Witness ==
    /\ pc = "select"
    /\ Scoped
    /\ startUrl = Parse(Ux).url
    /\ AfterCrawlFn = "nil"
    /\ Links0 = Empty
    /\ fetched = {Ux}
    /\ DOMAIN Links = {Ux, Uy, Uw}

---------------------------------------------------------------------------
\* the pre-fetch hook fails for the selected URL
HookFails == pc = "before" /\ BeforeCrawlFn # "nil" /\ BeforeCrawl(BeforeCrawlFn, urlStr).err

\* frontier, PageCount and files stay as they are in the step
NothingDone == Links' = Links /\ PageCount' = PageCount /\ httpi' = httpi /\ respbin' = respbin

\* C5: only a pre-fetch hook failure is fatal. When the hook fails, FetchSites
\* returns the error at once, and neither that step nor the selection before it
\* changes the frontier, PageCount or the files; FetchSites returns in no other way
\* than this one and with nil when no unvisited key is left.
C5_OnlyPreHookFatal ==
    [][/\ HookFails => (pc' = "idle" /\ ret' = Ret("FetchSites", TRUE, 0) /\ NothingDone)
       /\ pc = "select" => NothingDone
       /\ (pc \notin {"idle", "exited"} /\ pc' = "idle" /\ ~HookFails) =>
            (pc = "select" /\ NextLinks(Links) = {} /\ ret' = Ret("FetchSites", FALSE, 0))]_vars

\* FetchSites for seed Ux with the "deny" hook: Ux is fetched, then Uz of other.com
\* is selected and the hook fails; Uz is left unflagged
C5_Witness ==
    /\ pc = "idle"
    /\ ret = Ret("FetchSites", TRUE, 0)
    /\ BeforeCrawlFn = "deny"
    /\ PageCount = 1
    /\ Uz \in NextLinks(Links)

---------------------------------------------------------------------------
\* C6: a transport error does not abort the crawl. The fetch step goes on to
\* SavePage with a page that carries the error; SavePage for it increments
\* PageCount and writes the files when there is a storage folder (or the file
\* system fails and the process ends there); the expansion step goes back to the
\* selection.
C6_TransportErrorGoesOn ==
    [][/\ pc = "fetch" => (pc' = "save" /\ (Down(Parse(urlStr).url) => page'.Error))
       /\ (pc = "save" /\ page.Error) =>
            \/ /\ pc' = "expand"
               /\ PageCount' = Inc(PageCount)
               /\ StorageFolder # "" => page.CrawlTime \in respbin'
            \/ pc' = "exited" /\ StorageFolder # ""
       /\ (pc = "expand" /\ page.Error) => pc' = "select"]_vars

\* the page of Uz, whose host is down, after SavePage: counted and in its file
C6_Witness ==
    /\ pc = "expand"
    /\ page.Error
    /\ page.URL = Uz
    /\ PageCount = Inc(PageCount0 + 1)
    /\ page.CrawlTime \in DOMAIN httpi
    /\ httpi[page.CrawlTime] = File(page)

---------------------------------------------------------------------------
\* FetchSites was called on a frontier whose entries were all flagged, with no seed
\* or a seed that was in it
Rerun ==
    /\ pc \notin {"idle", "exited"}
    /\ Visited(Links0) = DOMAIN Links0
    /\ startUrl # NilUrl => String(startUrl) \in DOMAIN Links0

\* C7: idempotent re-crawl prevention. A FetchSites call on a frontier whose
\* entries are all flagged never leaves the selection: it passes no URL to GetPage,
\* never reaches SavePage, and frontier and PageCount stay as they were.
C7_NoRecrawl ==
    Rerun => (pc = "select" /\ Links = Links0 /\ PageCount = PageCount0 /\ fetched = {})

\* the second FetchSites for seed Ux on the crawler whose first one fetched pages
\* and left every entry flagged
C7_Witness ==
    /\ Rerun
    /\ calls = 2
    /\ startUrl = Parse(Ux).url
    /\ PageCount0 > 1
    /\ Cardinality(DOMAIN Links0) > 1

---------------------------------------------------------------------------
\* a step that is LoadPages on a new crawler, reading every file of the folder
LoadsOnNewCrawler ==
    /\ ret.op = "NewCrawler"
    /\ Links = Empty
    /\ ret' = Ret("LoadPages", FALSE, Cardinality(DOMAIN httpi))
    /\ httpi # Empty

\* C8: round-trip resume. LoadPages on a new crawler with the same hooks flags, for
\* the pages in the folder, the keys the live iterations flagged for them, and the
\* frontier holds those keys and the links the live iterations expanded.
C8_RoundTrip ==
    [][LoadsOnNewCrawler =>
         /\ Visited(Links') = {live[f].key : f \in DOMAIN httpi}
         /\ DOMAIN Links' = {live[f].key : f \in DOMAIN httpi}
                             \cup UNION {Range(live[f].links) : f \in DOMAIN httpi}]_vars

---------------------------------------------------------------------------
\* a list of the elements of a set
RECURSIVE ListOf(_)
ListOf(set) ==
    IF set = {} THEN <<>>
    ELSE LET x == CHOOSE y \in set : TRUE IN <<x>> \o ListOf(set \ {x})

\* C10: dedup. After AddAllLinks calls in a row the frontier has as many keys as
\* after one call with the union of their URLs on the frontier before them; a call
\* whose URLs were all passed in the calls before it changes nothing.
C10_Dedup ==
    /\ [](ret.op = "AddAllLinks" =>
            /\ Cardinality(DOMAIN Links) = Cardinality(DOMAIN AddAllLinks(base, ListOf(added)))
            /\ Cardinality(DOMAIN Links) = Cardinality((DOMAIN base) \cup added))
    /\ [][\A list \in LinkLists :
            (ret.op = "AddAllLinks" /\ Range(list) \subseteq added /\ CallAddAllLinks(list))
                => Links' = Links]_vars

\* AddAllLinks([Uy, Uz, Uy]) then AddAllLinks([Uz, UY]) on the empty frontier: 3 keys
C10_Witness ==
    /\ ret.op = "AddAllLinks"
    /\ calls = 2
    /\ base = Empty
    /\ added = {Uy, Uz, UY}
    /\ Cardinality(DOMAIN Links) = 3

---------------------------------------------------------------------------
\* SavePage has written both files of the page
Persisted(pg) ==
    /\ pg.CrawlTime \in respbin'
    /\ pg.CrawlTime \in DOMAIN httpi'
    /\ httpi'[pg.CrawlTime] = File(pg)

\* C11: storage failures are fatal. With a storage folder, the save step either
\* leaves both files of the page written or ends the process; with none it writes
\* nothing and goes on.
C11_StorageFailuresFatal ==
    [][pc = "save" =>
         IF StorageFolder = ""
         THEN pc' = "expand" /\ UNCHANGED <<storageDir, httpi, respbin>>
         ELSE (pc' = "expand" /\ Persisted(page)) \/ pc' = "exited"]_vars

---------------------------------------------------------------------------
\* the style has a declaration of key k with value v
Declares(style, k, v) ==
    \E d \in Range(Split(style, ";")) :
        LET kv == Split(d, ":")
        IN  Len(kv) > 1 /\ TrimSpace(kv[1]) = <<k>> /\ TrimSpace(kv[2]) = <<v>>

\* an anchor whose inline style hides it
Invisible(a) ==
    a.hasStyle /\ (Declares(a.style, "display", "none") \/ Declares(a.style, "visibility", "hidden"))

\* C12: visibility filtering. The hyperlinks GetHrefs returns are those of the
\* anchors with an href, but for the anchors whose inline style declares
\* display:none or visibility:hidden when removeInvisibles is set.
C12_VisibilityFiltering ==
    input.op = "GetHrefs" =>
        Range(output) = {ToAbsUrl(BaseUrl, a.href) :
                           a \in {b \in Range(input.doc) :
                                    b.hasHref /\ ~(input.removeInvisibles /\ Invisible(b))}}

---------------------------------------------------------------------------
\* http://a.example.com/h
Uxh == Str("http", <<"a", "example", "com">>, "/h")

\* the Location headers of Responses resolved against the request URL Ux: no header
\* gives the request URL, "/h" its host with the path /h, an absolute URL that URL
\* with its scheme in lower case, a header that does not parse the empty string
Target(location) ==
    CASE location = Unone -> Ux
      [] location = Uh -> Uxh
      [] location = Uy -> Uy
      [] location = UY -> Uy
      [] location = Ubad -> Unone

\* the hyperlinks the extractor gets from the response: none when the body is closed
Extracted(res) ==
    IF Intercepted(res) THEN <<>> ELSE GetHrefs(res.doc, BaseUrl, ~IncludeHiddenLinks)

\* C13: redirect synthesis. For a status in [300,308) the hyperlinks of the page
\* are the extractor's, with the resolved Location appended when it is not among
\* them; for any other status they are the extractor's.
C13_RedirectSynthesis ==
    input.op = "PageFromResponse" =>
        LET res == input.res
            hrefs == Extracted(res)
            location == Target(res.Location)
        IN  output.Hrefs =
              IF res.StatusCode >= 300 /\ res.StatusCode < 308
              THEN IF location \in Range(hrefs) THEN hrefs ELSE Append(hrefs, location)
              ELSE hrefs

\* status 302 with Location "/h" for the request of Ux: the page has the one
\* hyperlink http://a.example.com/h
C13_Witness ==
    /\ input.op = "PageFromResponse"
    /\ input.res.StatusCode = 302
    /\ input.res.Location = Uh
    /\ output.Hrefs = <<Uxh>>

---------------------------------------------------------------------------
\* the URLs the running call passed to GetPage and got a transport error for
Failed == {u \in fetched : Down(Parse(u).url)}

\* a step that selects a URL
Selects == pc = "select" /\ pc' = "before"

\* C14: mark before fetch. The URL passed to GetPage is flagged when GetPage is
\* called, hence also when the fetch ends in a transport error; no later selection
\* of the call selects a URL whose fetch ended so, nor any flagged URL.
C14_MarkBeforeFetch ==
    /\ [](pc = "fetch" => IsCrawled(Links, urlStr))
    /\ [][Selects => (urlStr' \notin Failed /\ ~IsCrawled(Links, urlStr'))]_vars
    /\ [](pc \notin {"idle", "exited"} => \A u \in Failed : IsCrawled(Links, u))

\* the fetch of Uz ended in a transport error, and a later iteration has selected
\* another URL
C14_Witness ==
    /\ pc = "before"
    /\ Uz \in Failed
    /\ IsCrawled(Links, Uz)
    /\ urlStr # Uz

---------------------------------------------------------------------------
\* a FetchSites call is running
Running == pc \notin {"idle", "exited"}

\* the running call was given a seed that was not flagged, was flagged, when it began
FreshSeed == Running /\ startUrl # NilUrl /\ ~IsCrawled(Links0, String(startUrl))
StaleSeed == Running /\ startUrl # NilUrl /\ IsCrawled(Links0, String(startUrl))

\* C15: seed first, exactly once. With a seed that was not flagged when the call
\* began, the first URL selected is the seed and the seed is selected once, not
\* again later; with a seed that was flagged the seed is not selected and the first
\* URL selected is an unflagged key of the frontier.
C15_SeedFirstOnce ==
    /\ FreshSeed => (first # <<>> => (first = <<String(startUrl)>> /\ seedPicks = 1))
    /\ StaleSeed => (seedPicks = 0 /\ (first # <<>> => first[1] \in NextLinks(Links0)))

---------------------------------------------------------------------------
\* a URL that parses and whose scheme is none of http, https
BadScheme(k) == k.ok /\ ToLower(k.scheme) \notin {"http", "https"}

\* the running iteration selected a URL of such a scheme
PickedBadScheme == picked # <<>> /\ BadScheme(picked[1])

\* C16: scheme check. An iteration that selected a URL whose scheme is not valid
\* does not come to GetPage or SavePage; it goes back to the selection with
\* PageCount and the files as they were and no key added but the flagged URL; the
\* URL so skipped is not selected again in the call.
C16_SchemeCheck ==
    /\ [](PickedBadScheme => pc \in {"before", "mark"})
    /\ [][(pc = "mark" /\ PickedBadScheme) =>
             /\ pc' = "select"
             /\ PageCount' = PageCount
             /\ (DOMAIN Links') \subseteq (DOMAIN Links) \cup {urlStr}
             /\ UNCHANGED <<httpi, respbin>>]_vars
    /\ [][Selects => urlStr' \notin skipped]_vars

---------------------------------------------------------------------------
\* what the post-fetch hook returns for the page of the running iteration, which it
\* gets with the error of the fetch
Hooked == AfterCrawl(AfterCrawlFn, page, page.Error)

\* the links the expansion is to take
ToExpand == IF AfterCrawlFn # "nil" THEN Hooked.links ELSE page.Hrefs

\* C17: post-fetch hook override. The keys the expansion adds are the links the hook
\* returned when there is a hook and the page's hyperlinks when there is none, under
\* scoping those of the seed's domain; when the hook returned an error the page is
\* still saved and counted (or the file system fails and the process ends there) and
\* the expansion goes back to the selection.
C17_PostHookOverride ==
    [][/\ (pc = "expand" /\ pc' = "select") =>
            DOMAIN Links' = (DOMAIN Links)
                            \cup {l \in Range(ToExpand) : Scoped => OfDomain(l, startUrl)}
       /\ (pc = "fetch" /\ AfterCrawlFn # "nil") =>
            (pc' = "save" /\ err' = AfterCrawl(AfterCrawlFn, page', page'.Error).err)
       /\ (pc = "save" /\ AfterCrawlFn # "nil" /\ err) =>
            \/ /\ pc' = "expand"
               /\ PageCount' = Inc(PageCount)
               /\ StorageFolder # "" => page.CrawlTime \in respbin'
            \/ pc' = "exited" /\ StorageFolder # ""
       /\ (pc = "expand" /\ AfterCrawlFn # "nil" /\ err) => pc' = "select"]_vars

\* the fetch of Uz failed, the "mirror" hook returned the link Uw and an error: the
\* page was counted and Uw, which is on no page fetched, is in the frontier
C17_Witness ==
    /\ pc = "select"
    /\ AfterCrawlFn = "mirror"
    /\ fetched = {Uz}
    /\ PageCount = Inc(PageCount0)
    /\ Uw \in DOMAIN Links

---------------------------------------------------------------------------
\* the place of the first file of the list that does not load
FirstCut(names) == CHOOSE k \in 1..Len(names) :
                       /\ ~httpi[names[k]].valid
                       /\ \A j \in 1..(k - 1) : httpi[names[j]].valid

\* C18: resume aborts on the first load error with a partial count. When the k-th
\* file of the folder does not load, LoadPages returns the error and k-1, and the
\* frontier is the one the k-1 files before it give: no later file is applied.
C18_ResumeAborts ==
    [][(CallLoadPages("./storage") /\ storageDir /\ CutFiles(httpi) # {}) =>
         LET names == Sorted(DOMAIN httpi)
             k == FirstCut(names)
             done == LoadFiles(Links, httpi, SubSeq(names, 1, k - 1), 0, BeforeCrawlFn, AfterCrawlFn)
         IN  /\ ret' = Ret("LoadPages", TRUE, k - 1)
             /\ pc' = "idle"
             /\ Links' = done.links
             /\ \A j \in k..Len(names) :
                  (httpi[names[j]].valid /\ ~IsCrawled(done.links, httpi[names[j]].page.URL))
                      => ~IsCrawled(Links', httpi[names[j]].page.URL)]_vars

\* LoadPages on a new crawler read the page of file 0 and failed on file 1: it
\* returned the error and 1, and the URL of the page is flagged
C18_Witness ==
    /\ ret = Ret("LoadPages", TRUE, 1)
    /\ DOMAIN httpi = {0, 1}
    /\ ~httpi[1].valid
    /\ Visited(Links) = {httpi[0].page.URL}

---------------------------------------------------------------------------
\* C19: scoped crawls stay in scope. In a FetchSites call with a seed under domain
\* scoping that began on the empty frontier, every URL passed to GetPage is of the
\* seed's registrable domain.
C19_StaysInScope ==
    [][(pc = "fetch" /\ pc' = "save" /\ Scoped /\ Links0 = Empty) =>
         OfDomain(urlStr, startUrl)]_vars

---------------------------------------------------------------------------
\* the first call on the crawler is FetchSites and it is running: it began with
\* PageCount 0 and an empty folder
FirstRun == Running /\ calls = 1 /\ StorageFolder # ""

\* C20: one persisted record per counted page. With a storage folder, SavePage for
\* a page that is counted writes a .httpi file that was not there, and in the first
\* run on an empty folder the folder holds as many .httpi files as PageCount counts
\* between the iterations.
C20_OneRecordPerPage ==
    /\ [][(pc = "save" /\ pc' = "expand" /\ StorageFolder # "") =>
             page.CrawlTime \notin DOMAIN httpi]_vars
    /\ []((FirstRun /\ pc = "select") =>
             PageCount = Cardinality(DOMAIN httpi) % (2 ^ CountBits))

====
